---------------------------- MODULE Spec2Model ----------------------------
(***************************************************************************)
(* Statistics aggregation engine of github-data-visualizer:                *)
(*   src/src/utils/date_utils.py, src/src/utils/data_utils.py,             *)
(*   src/src/analysis/pr_analyzer.py, src/src/analysis/multi_repo_analyzer.py *)
(*                                                                         *)
(* Representation of Python values                                         *)
(*   dict with fixed string keys   a TLA+ record; a key may be absent      *)
(*                                 (k \notin DOMAIN d); {} is <<>>         *)
(*   dict built by insertion       a sequence of [k, v] entries in         *)
(*                                 insertion order (Python dicts iterate   *)
(*                                 in insertion order)                     *)
(*   None                          <<>>                                    *)
(*   date string                   <<year, month, day, hour>>; a string    *)
(*                                 that does not match the format is a     *)
(*                                 tuple that is not a calendar date       *)
(*   datetime                      [year, month, day, hour]                *)
(*   "%Y-%m" month key             <<year, month>>                         *)
(*   float                         an exact rational [n, d] in lowest      *)
(*                                 terms; d = 0 and n = 1 is float('inf'), *)
(*                                 d = 0 and n = 0 is NaN                  *)
(*   a call that returns v         [raised |-> FALSE, value |-> v]         *)
(*   a call that raises            [raised |-> TRUE, exc, arg]             *)
(* The wall-clock field generated_at (datetime.now()) is left out of the   *)
(* results: it is a reading of the clock, not a function of the input.     *)
(***************************************************************************)
EXTENDS Integers, Sequences, FiniteSets, TLC

VARIABLES
    repo_analyses,   \* MultiRepoAnalyzer.repo_analyses (insertion-ordered dict)
    monthly_data,    \* PRAnalyzer.monthly_data of the instance's analyzer
    arg,             \* the argument of the last call
    result,          \* what the last call returned or raised
    pc,              \* "idle" before any call, then the name of the last call
                     \* ("fetching" while get_pull_requests is in its loop)
    held,            \* an earlier result the caller has kept: its contents when
                     \* it was returned and as the caller reads them now; None
                     \* when the caller keeps none
    all_prs,         \* get_pull_requests: the records kept so far
    page,            \* get_pull_requests: the number of the page to ask for
    requests         \* the page numbers the server has been asked for, in order

vars == <<repo_analyses, monthly_data, arg, result, pc, held, all_prs, page, requests>>

-----------------------------------------------------------------------------
(* Python primitives *)

None == <<>>

Ok(v) == [raised |-> FALSE, value |-> v]

Raise(e, a) == [raised |-> TRUE, exc |-> e, arg |-> a]

\* d.get(k, default)
Get(d, k, default) == IF k \in DOMAIN d THEN d[k] ELSE default

\* bool(d.get(k)): the key is there and its value is neither None nor ""
Truthy(d, k) == k \in DOMAIN d /\ d[k] # None

RECURSIVE Gcd(_, _)
Gcd(a, b) == IF b = 0 THEN a ELSE Gcd(b, a % b)

Abs(a) == IF a < 0 THEN -a ELSE a

\* the float n / d, d > 0
Rat(n, d) ==
    LET g == Gcd(Abs(n), d)
    IN  [n |-> n \div g, d |-> d \div g]

Zero == [n |-> 0, d |-> 1]

Inf == [n |-> 1, d |-> 0]

FromInt(i) == [n |-> i, d |-> 1]

RatAdd(a, b) == Rat(a.n * b.d + b.n * a.d, a.d * b.d)

RatScale(a, k) == Rat(a.n * k, a.d)

\* a < b on floats (Inf included)
RatLess(a, b) == a.n * b.d < b.n * a.d

\* the list [f[1], ..., f[n]] built from a list comprehension
List(f) == SubSeq(f, 1, Len(f))

RECURSIVE SumSeq(_)
SumSeq(s) == IF s = <<>> THEN 0 ELSE Head(s) + SumSeq(Tail(s))

\* k in d, for an insertion-ordered dict
HasKey(d, k) == \E i \in 1..Len(d) : d[i].k = k

\* d[k], for a key that is there
Lookup(d, k) == d[CHOOSE i \in 1..Len(d) : d[i].k = k].v

\* d[k] = v: replaces the value in place, or appends a new entry
Store(d, k, v) ==
    IF HasKey(d, k)
    THEN List([i \in 1..Len(d) |-> IF d[i].k = k THEN [k |-> k, v |-> v] ELSE d[i]])
    ELSE Append(d, [k |-> k, v |-> v])

-----------------------------------------------------------------------------
(* src/src/utils/date_utils.py *)

IsLeap(y) == (y % 4 = 0 /\ y % 100 # 0) \/ y % 400 = 0

DaysInMonth(y, m) ==
    IF m = 2 THEN (IF IsLeap(y) THEN 29 ELSE 28)
    ELSE IF m \in {4, 6, 9, 11} THEN 30 ELSE 31

\* does the string match "%Y-%m-%dT%H:%M:%SZ"
MatchesFormat(s) ==
    /\ Len(s) = 4
    /\ s[2] \in 1..12
    /\ s[3] \in 1..DaysInMonth(s[1], s[2])
    /\ s[4] \in 0..23

parse_github_date(date_str) ==
    IF date_str = None THEN Raise("TypeError", date_str)
    ELSE IF ~MatchesFormat(date_str) THEN Raise("ValueError", date_str)
    ELSE Ok([year |-> date_str[1], month |-> date_str[2],
             day |-> date_str[3], hour |-> date_str[4]])

\* date.strftime("%Y-%m")
strftime_Ym(date) == <<date.year, date.month>>

RECURSIVE DaysBeforeMonth(_, _)
DaysBeforeMonth(y, m) ==
    IF m = 1 THEN 0 ELSE DaysBeforeMonth(y, m - 1) + DaysInMonth(y, m - 1)

RECURSIVE DaysBeforeYear(_)
DaysBeforeYear(y) ==
    IF y <= 2024 THEN 0
    ELSE DaysBeforeYear(y - 1) + (IF IsLeap(y - 1) THEN 366 ELSE 365)

\* hours from 2024-01-01T00:00:00Z to dt
HoursOf(dt) ==
    (DaysBeforeYear(dt.year) + DaysBeforeMonth(dt.year, dt.month) + dt.day - 1) * 24
    + dt.hour

\* (a - b).total_seconds() / 3600
HoursBetween(a, b) == FromInt(HoursOf(a) - HoursOf(b))

-----------------------------------------------------------------------------
(* src/src/utils/data_utils.py *)

\* faulty variant of AddToBucket: the bucket is started anew for every item
AddToBucketOverwriting(grouped, month_key, item) == Store(grouped, month_key, <<item>>)

\* if month_key not in grouped: grouped[month_key] = []
\* grouped[month_key].append(item)
AddToBucket(grouped, month_key, item) ==
    LET bucket == IF HasKey(grouped, month_key) THEN Lookup(grouped, month_key) ELSE <<>>
    IN  Store(grouped, month_key, Append(bucket, item))

RECURSIVE GroupLoop(_, _, _)

\* lines 14-17, date being what parse_github_date returned or raised
GroupItem(data, date_field, grouped, date) ==
    IF date.raised THEN date
    ELSE GroupLoop(Tail(data), date_field,
                   AddToBucket(grouped, strftime_Ym(date.value), Head(data)))

GroupLoop(data, date_field, grouped) ==
    IF data = <<>> THEN Ok(grouped)
    ELSE IF date_field \notin DOMAIN Head(data) THEN Raise("KeyError", date_field)
         ELSE GroupItem(data, date_field, grouped, parse_github_date(Head(data)[date_field]))

group_by_month(data, date_field) == GroupLoop(data, date_field, <<>>)

IsOpen(item) == "state" \in DOMAIN item /\ item.state = "open"

\* faulty variant of IsClosed: a merged record counts as closed whatever its state
IsClosedOrMerged(item) ==
    ("state" \in DOMAIN item /\ item.state = "closed") \/ Truthy(item, "merged_at")

IsClosed(item) == "state" \in DOMAIN item /\ item.state = "closed"

IsMerged(item) == Truthy(item, "merged_at")

SumField(items, f) == SumSeq(List([i \in 1..Len(items) |-> Get(items[i], f, 0)]))

MonthStat(items) ==
    [count |-> Len(items),
     open_count |-> Len(SelectSeq(items, IsOpen)),
     closed_count |-> Len(SelectSeq(items, IsClosed)),
     merged_count |-> Len(SelectSeq(items, IsMerged)),
     avg_comments |-> IF items # <<>> THEN Rat(SumField(items, "comments"), Len(items))
                      ELSE Zero,
     avg_reviews |-> IF items # <<>>
                     THEN Rat(SumField(items, "review_comments"), Len(items))
                     ELSE Zero]

calculate_monthly_stats(grouped_data) ==
    List([i \in 1..Len(grouped_data) |->
            [k |-> grouped_data[i].k, v |-> MonthStat(grouped_data[i].v)]])

-----------------------------------------------------------------------------
(* src/src/analysis/pr_analyzer.py *)

\* states[state] = states.get(state, 0) + 1, over the records in order
RECURSIVE StateDistribution(_, _)
StateDistribution(prs, states) ==
    IF prs = <<>> THEN states
    ELSE LET state == Get(Head(prs), "state", "unknown")
             seen == IF HasKey(states, state) THEN Lookup(states, state) ELSE 0
         IN  StateDistribution(Tail(prs), Store(states, state, seen + 1))

\* faulty variant of MergedCount: every closed record counts as merged
MergedCountByState(prs) == Len(SelectSeq(prs, IsClosed))

\* len([pr for pr in prs if pr.get("merged_at")])
MergedCount(prs) == Len(SelectSeq(prs, IsMerged))

\* faulty variant of IsClosedNotMerged: every closed record, merged or not
ClosedWhetherMerged(pr) == "state" \in DOMAIN pr /\ pr.state = "closed"

IsClosedNotMerged(pr) == IsClosed(pr) /\ ~Truthy(pr, "merged_at")

MergeRate(merged_count, total_prs) ==
    IF total_prs > 0 THEN Rat(merged_count * 100, total_prs) ELSE Zero

Average(total, total_prs) == IF total_prs > 0 THEN Rat(total, total_prs) ELSE Zero

_calculate_overall_stats(prs) ==
    LET total_prs == Len(prs)
        merged_count == MergedCount(prs)
        total_additions == SumField(prs, "additions")
        total_deletions == SumField(prs, "deletions")
    IN  IF total_prs = 0 THEN <<>>
        ELSE [total_prs |-> total_prs,
              state_distribution |-> StateDistribution(prs, <<>>),
              merged_count |-> merged_count,
              closed_not_merged_count |-> Len(SelectSeq(prs, IsClosedNotMerged)),
              merge_rate |-> MergeRate(merged_count, total_prs),
              avg_comments |-> Average(SumField(prs, "comments"), total_prs),
              avg_review_comments |-> Average(SumField(prs, "review_comments"), total_prs),
              avg_commits |-> Average(SumField(prs, "commits"), total_prs),
              avg_additions |-> Average(total_additions, total_prs),
              avg_deletions |-> Average(total_deletions, total_prs),
              total_changes |-> total_additions + total_deletions]

\* pd.to_datetime(month_key + "-01")
to_datetime(month_key) ==
    [year |-> month_key[1], month |-> month_key[2], day |-> 1, hour |-> 0]

\* one row of the DataFrame: its index and the month's statistics
RECURSIVE InsertRow(_, _)
InsertRow(sorted, row) ==
    IF sorted = <<>> THEN <<row>>
    ELSE IF HoursOf(row.k) < HoursOf(Head(sorted).k) THEN <<row>> \o sorted
         ELSE <<Head(sorted)>> \o InsertRow(Tail(sorted), row)

RECURSIVE SortRows(_)
SortRows(rows) ==
    IF rows = <<>> THEN <<>>
    ELSE InsertRow(SortRows(SubSeq(rows, 1, Len(rows) - 1)), rows[Len(rows)])

\* faulty variant of SortedFrame: the rows are left in the order of the buckets
UnsortedFrame(monthly_stats) ==
    List([i \in 1..Len(monthly_stats) |->
             [k |-> to_datetime(monthly_stats[i].k), v |-> monthly_stats[i].v]])

\* df = DataFrame.from_dict(monthly_stats, orient='index'), the index converted to
\* datetimes, then df.sort_index()
SortedFrame(monthly_stats) ==
    SortRows(List([i \in 1..Len(monthly_stats) |->
                     [k |-> to_datetime(monthly_stats[i].k), v |-> monthly_stats[i].v]]))

Slope(df) ==
    IF Len(df) > 1 THEN Rat(df[Len(df)].v.count - df[1].v.count, Len(df)) ELSE Zero

\* faulty variant of Direction: a zero slope counts as increasing
DirectionNonStrict(slope) ==
    IF slope.n >= 0 THEN "increasing"
    ELSE IF slope.n < 0 THEN "decreasing" ELSE "stable"

Direction(slope) ==
    IF slope.n > 0 THEN "increasing"
    ELSE IF slope.n < 0 THEN "decreasing" ELSE "stable"

MaxOf(S) == CHOOSE m \in S : \A x \in S : x <= m

MinOf(S) == CHOOSE m \in S : \A x \in S : m <= x

Counts(df) == List([i \in 1..Len(df) |-> df[i].v.count])

\* faulty variant of IdxMax: the index of the last row holding the maximum
IdxMaxLast(df) ==
    LET top == MaxOf({df[i].v.count : i \in 1..Len(df)})
    IN  df[MaxOf({i \in 1..Len(df) : df[i].v.count = top})].k

\* df['count'].idxmax(): the index of the first row holding the maximum
IdxMax(df) ==
    LET top == MaxOf({df[i].v.count : i \in 1..Len(df)})
    IN  df[MinOf({i \in 1..Len(df) : df[i].v.count = top})].k

RECURSIVE SumRat(_)
SumRat(s) == IF s = <<>> THEN Zero ELSE RatAdd(Head(s), SumRat(Tail(s)))

\* the mean of a column of floats
MeanRat(s) == LET t == SumRat(s) IN Rat(t.n, t.d * Len(s))

\* the trends read off the sorted frame
Trends(df, slope, total, merged) ==
    [pr_count_trend |->
        [slope |-> slope, direction |-> Direction(slope), change_rate |-> slope],
     monthly_averages |->
        [avg_prs_per_month |-> Rat(total, Len(df)),
         avg_merge_rate |-> IF total > 0 THEN Rat(merged * 100, total) ELSE Zero,
         avg_comments_per_pr |->
             MeanRat(List([i \in 1..Len(df) |-> df[i].v.avg_comments]))],
     peak_activity |->
        [peak_month |-> strftime_Ym(IdxMax(df)),
         peak_count |-> MaxOf({df[i].v.count : i \in 1..Len(df)})]]

FrameTrends(df) ==
    Trends(df, Slope(df), SumSeq(Counts(df)),
           SumSeq(List([i \in 1..Len(df) |-> df[i].v.merged_count])))

\* faulty variant of _calculate_trends: one month is enough for a trend
TrendsFromOneMonth(monthly_stats) ==
    IF Len(monthly_stats) < 1
    THEN [message |-> "Insufficient data for trend analysis"]
    ELSE FrameTrends(SortedFrame(monthly_stats))

_calculate_trends(monthly_stats) ==
    IF Len(monthly_stats) < 2
    THEN [message |-> "Insufficient data for trend analysis"]
    ELSE FrameTrends(SortedFrame(monthly_stats))

\* faulty variant of Username: a record without an author login is credited to
\* "anonymous"
UsernameAnonymous(pr) ==
    IF "user" \in DOMAIN pr THEN Get(pr.user, "login", "anonymous") ELSE "anonymous"

\* pr.get("user", {}).get("login", "unknown")
Username(pr) ==
    IF "user" \in DOMAIN pr THEN Get(pr.user, "login", "unknown") ELSE "unknown"

NewContributor ==
    [pr_count |-> 0, merged_count |-> 0, total_comments |-> 0,
     total_review_comments |-> 0, total_additions |-> 0, total_deletions |-> 0]

\* faulty variant of Credit: only merged records count towards pr_count
CreditMergedOnly(c, pr) ==
    [pr_count |-> c.pr_count + (IF Truthy(pr, "merged_at") THEN 1 ELSE 0),
     merged_count |-> c.merged_count + (IF Truthy(pr, "merged_at") THEN 1 ELSE 0),
     total_comments |-> c.total_comments + Get(pr, "comments", 0),
     total_review_comments |-> c.total_review_comments + Get(pr, "review_comments", 0),
     total_additions |-> c.total_additions + Get(pr, "additions", 0),
     total_deletions |-> c.total_deletions + Get(pr, "deletions", 0)]

Credit(c, pr) ==
    [pr_count |-> c.pr_count + 1,
     merged_count |-> c.merged_count + (IF Truthy(pr, "merged_at") THEN 1 ELSE 0),
     total_comments |-> c.total_comments + Get(pr, "comments", 0),
     total_review_comments |-> c.total_review_comments + Get(pr, "review_comments", 0),
     total_additions |-> c.total_additions + Get(pr, "additions", 0),
     total_deletions |-> c.total_deletions + Get(pr, "deletions", 0)]

RECURSIVE Contributors(_, _)
Contributors(prs, contributors) ==
    IF prs = <<>> THEN contributors
    ELSE LET username == Username(Head(prs))
             c == IF HasKey(contributors, username)
                  THEN Lookup(contributors, username) ELSE NewContributor
         IN  Contributors(Tail(prs), Store(contributors, username, Credit(c, Head(prs))))

\* faulty variant of InsertDesc: an item goes in front of the items of equal key
RECURSIVE InsertDescTiesFirst(_, _)
InsertDescTiesFirst(sorted, x) ==
    IF sorted = <<>> THEN <<x>>
    ELSE IF ~RatLess(x.key, Head(sorted).key) THEN <<x>> \o sorted
         ELSE <<Head(sorted)>> \o InsertDescTiesFirst(Tail(sorted), x)

\* sorted(items, key=Key, reverse=True): descending, equal keys keep their order.
\* Keys are floats.
RECURSIVE InsertDesc(_, _)
InsertDesc(sorted, x) ==
    IF sorted = <<>> THEN <<x>>
    ELSE IF RatLess(Head(sorted).key, x.key) THEN <<x>> \o sorted
         ELSE <<Head(sorted)>> \o InsertDesc(Tail(sorted), x)

\* faulty variant of SortKeyedDesc: the items are left in the order given
KeptInOrder(keyed) == keyed

RECURSIVE SortKeyedDesc(_)
SortKeyedDesc(keyed) ==
    IF keyed = <<>> THEN <<>>
    ELSE InsertDesc(SortKeyedDesc(SubSeq(keyed, 1, Len(keyed) - 1)), keyed[Len(keyed)])

\* sorted(keyed items, reverse=True), the keys dropped
SortedDesc(keyed) ==
    LET sorted == SortKeyedDesc(keyed)
    IN  List([i \in 1..Len(sorted) |-> sorted[i].item])

\* d.items()
Items(d) == List([i \in 1..Len(d) |-> <<d[i].k, d[i].v>>])

\* key=lambda x: x[1]["pr_count"]
KeyedByPrCount(items) ==
    List([i \in 1..Len(items) |-> [key |-> FromInt(items[i][2].pr_count), item |-> items[i]]])

Take(s, n) == SubSeq(s, 1, IF Len(s) < n THEN Len(s) ELSE n)

ContributorStats(contributors) ==
    [total_contributors |-> Len(contributors),
     top_contributors |-> Take(SortedDesc(KeyedByPrCount(Items(contributors))), 10),
     contributor_details |-> contributors]

_calculate_contributor_stats(prs) == ContributorStats(Contributors(prs, <<>>))

\* bool(pr.get(k)) for a float
NonZero(d, k) == k \in DOMAIN d /\ d[k].n # 0

HasTimeToClose(l) == NonZero(l, "time_to_close")

HasTimeToMerge(l) == NonZero(l, "time_to_merge")

\* faulty variant of LifecycleRecord: a timing of 0 hours is not recorded
LifecycleRecordWithoutZeroTimings(pr, created_at, closed_at, merged_at) ==
    [pr_number |-> pr.number,
     created_at |-> created_at,
     closed_at |-> closed_at,
     merged_at |-> merged_at,
     state |-> Get(pr, "state", None),
     is_merged |-> merged_at # None]
    @@ (IF closed_at # None /\ closed_at # created_at
        THEN "time_to_close" :> HoursBetween(closed_at, created_at) ELSE <<>>)
    @@ (IF merged_at # None /\ merged_at # created_at
        THEN "time_to_merge" :> HoursBetween(merged_at, created_at) ELSE <<>>)

\* the lifecycle dict of one record, its three dates parsed
LifecycleRecord(pr, created_at, closed_at, merged_at) ==
    [pr_number |-> pr.number,
     created_at |-> created_at,
     closed_at |-> closed_at,
     merged_at |-> merged_at,
     state |-> Get(pr, "state", None),
     is_merged |-> merged_at # None]
    @@ (IF closed_at # None
        THEN "time_to_close" :> HoursBetween(closed_at, created_at) ELSE <<>>)
    @@ (IF merged_at # None
        THEN "time_to_merge" :> HoursBetween(merged_at, created_at) ELSE <<>>)

\* parse_github_date(pr[k]) if pr.get(k), else None
ParseIfSet(pr, k) == IF Truthy(pr, k) THEN parse_github_date(pr[k]) ELSE Ok(None)

ParsedLifecycle(pr, created, closed, merged) ==
    IF created.raised THEN created
    ELSE IF closed.raised THEN closed
    ELSE IF merged.raised THEN merged
    ELSE IF "number" \notin DOMAIN pr THEN Raise("KeyError", "number")
    ELSE Ok(LifecycleRecord(pr, created.value, closed.value, merged.value))

\* one pass of the loop body of _calculate_lifecycle_stats
Lifecycle(pr) ==
    IF "created_at" \notin DOMAIN pr THEN Raise("KeyError", "created_at")
    ELSE ParsedLifecycle(pr, parse_github_date(pr.created_at),
                         ParseIfSet(pr, "closed_at"), ParseIfSet(pr, "merged_at"))

RECURSIVE LifecycleLoop(_, _)

LifecycleStep(prs, lifecycle_data, l) ==
    IF l.raised THEN l ELSE LifecycleLoop(Tail(prs), Append(lifecycle_data, l.value))

LifecycleLoop(prs, lifecycle_data) ==
    IF prs = <<>> THEN Ok(lifecycle_data)
    ELSE LifecycleStep(prs, lifecycle_data, Lifecycle(Head(prs)))

MeanOf(rows, f) ==
    IF rows # <<>> THEN MeanRat(List([i \in 1..Len(rows) |-> rows[i][f]])) ELSE Zero

LifecycleStats(lifecycle_data, closed_prs, merged_prs) ==
    [total_prs |-> Len(lifecycle_data),
     closed_prs |-> Len(closed_prs),
     merged_prs |-> Len(merged_prs),
     avg_time_to_close |-> MeanOf(closed_prs, "time_to_close"),
     avg_time_to_merge |-> MeanOf(merged_prs, "time_to_merge"),
     lifecycle_details |-> lifecycle_data]

LifecycleAverages(looped) ==
    IF looped.raised THEN looped
    ELSE Ok(LifecycleStats(looped.value,
                           SelectSeq(looped.value, HasTimeToClose),
                           SelectSeq(looped.value, HasTimeToMerge)))

_calculate_lifecycle_stats(prs) == LifecycleAverages(LifecycleLoop(prs, <<>>))

_empty_analysis_result ==
    [summary |-> [total_prs |-> 0, analysis_period |-> "2025", months_analyzed |-> 0],
     monthly_stats |-> <<>>,
     overall_stats |-> <<>>,
     trends |-> [message |-> "No data available"],
     contributor_stats |-> [total_contributors |-> 0, top_contributors |-> <<>>],
     lifecycle_stats |-> [total_prs |-> 0],
     raw_data |-> [prs_by_month |-> <<>>, all_prs |-> <<>>]]

\* the dict returned at lines 46-62
AnalysisResult(prs, self_monthly_data, monthly_stats, lifecycle_stats) ==
    [summary |-> [total_prs |-> Len(prs),
                  analysis_period |-> "2025",
                  months_analyzed |-> Len(monthly_stats)],
     monthly_stats |-> monthly_stats,
     overall_stats |-> _calculate_overall_stats(prs),
     trends |-> _calculate_trends(monthly_stats),
     contributor_stats |-> _calculate_contributor_stats(prs),
     lifecycle_stats |-> lifecycle_stats,
     raw_data |-> [prs_by_month |-> self_monthly_data, all_prs |-> prs]]

\* lines 31-62, once self.monthly_data is assigned
Analyse(prs, self_monthly_data, lifecycle_stats) ==
    [ret |-> IF lifecycle_stats.raised THEN lifecycle_stats
             ELSE Ok(AnalysisResult(prs, self_monthly_data,
                                    calculate_monthly_stats(self_monthly_data),
                                    lifecycle_stats.value)),
     monthly_data |-> self_monthly_data]

\* line 29: the assignment to self.monthly_data, unless group_by_month raises
Grouped(self_monthly_data, prs, grouped) ==
    IF grouped.raised THEN [ret |-> grouped, monthly_data |-> self_monthly_data]
    ELSE Analyse(prs, grouped.value, _calculate_lifecycle_stats(prs))

\* PRAnalyzer.analyze_pr_data on an analyzer whose monthly_data is self_monthly_data:
\* what the call returns or raises (ret) and the analyzer's monthly_data afterwards
analyze_pr_data(self_monthly_data, prs) ==
    IF prs = <<>>
    THEN [ret |-> Ok(_empty_analysis_result), monthly_data |-> self_monthly_data]
    ELSE Grouped(self_monthly_data, prs, group_by_month(prs, "created_at"))

-----------------------------------------------------------------------------
(* src/src/analysis/multi_repo_analyzer.py *)

\* the float sqrt(r)
Sqrt(r) == [sqrt_of |-> r]

NaN == [n |-> 0, d |-> 0]

\* max(items, key=Key): the first item holding the largest key (keys are floats)
FirstMax(keyed) ==
    LET best == {i \in 1..Len(keyed) :
                    \A j \in 1..Len(keyed) : ~RatLess(keyed[i].key, keyed[j].key)}
    IN  keyed[MinOf(best)].item

\* min(items, key=Key): the first item holding the smallest key
FirstMin(keyed) ==
    LET best == {i \in 1..Len(keyed) :
                    \A j \in 1..Len(keyed) : ~RatLess(keyed[j].key, keyed[i].key)}
    IN  keyed[MinOf(best)].item

\* key=lambda x: x[1], the values being ints
KeyedByCount(items) ==
    List([i \in 1..Len(items) |-> [key |-> FromInt(items[i][2]), item |-> items[i]]])

\* key=lambda x: x[1], the values being floats
KeyedByValue(items) ==
    List([i \in 1..Len(items) |-> [key |-> items[i][2], item |-> items[i]]])

\* key=lambda x: x[1]["count"]
KeyedByMonthCount(items) ==
    List([i \in 1..Len(items) |-> [key |-> FromInt(items[i][2].count), item |-> items[i]]])

TotalPrsOf(analysis) == analysis.summary.total_prs

\* a variant that also keeps the repositories without records
HasAnalysis(entry) == Get(entry.v.overall_stats, "total_prs", 0) >= 0

\* overall_stats.get("total_prs", 0) > 0
HasPrs(entry) == Get(entry.v.overall_stats, "total_prs", 0) > 0

MergeRateOf(analysis) == Get(analysis.overall_stats, "merge_rate", Zero)

AvgCommentsOf(analysis) == Get(analysis.overall_stats, "avg_comments", Zero)

AvgReviewCommentsOf(analysis) == Get(analysis.overall_stats, "avg_review_comments", Zero)

\* {repo: analysis["summary"]["total_prs"] for repo, analysis in ...items()}
pr_counts(analyses) ==
    List([i \in 1..Len(analyses) |->
             [k |-> analyses[i].k, v |-> TotalPrsOf(analyses[i].v)]])

\* the merge rate of every repository that has records
merge_rates(analyses) ==
    LET counted == SelectSeq(analyses, HasPrs)
    IN  List([i \in 1..Len(counted) |->
                 [k |-> counted[i].k, v |-> MergeRateOf(counted[i].v)]])

avg_comments(analyses) ==
    List([i \in 1..Len(analyses) |->
             [k |-> analyses[i].k, v |-> AvgCommentsOf(analyses[i].v)]])

\* max(monthly_stats.items(), key=lambda x: x[1]["count"])[0]
PeakMonth(monthly_stats) ==
    IF monthly_stats # <<>>
    THEN FirstMax(KeyedByMonthCount(Items(monthly_stats)))[1]
    ELSE None

Activity(analysis) ==
    LET monthly_stats == analysis.monthly_stats
        total_monthly_prs == SumSeq(Counts(monthly_stats))
    IN  [total_prs |-> total_monthly_prs,
         avg_prs_per_month |-> IF monthly_stats # <<>>
                               THEN Rat(total_monthly_prs, Len(monthly_stats)) ELSE Zero,
         peak_month |-> PeakMonth(monthly_stats),
         peak_count |-> IF monthly_stats # <<>>
                        THEN MaxOf({monthly_stats[i].v.count : i \in 1..Len(monthly_stats)})
                        ELSE 0]

monthly_activity(analyses) ==
    List([i \in 1..Len(analyses) |-> [k |-> analyses[i].k, v |-> Activity(analyses[i].v)]])

Quality(analysis) ==
    [merge_rate |-> MergeRateOf(analysis),
     avg_time_to_merge |-> Get(analysis.lifecycle_stats, "avg_time_to_merge", Zero),
     avg_comments |-> AvgCommentsOf(analysis),
     avg_review_comments |-> AvgReviewCommentsOf(analysis),
     total_changes |-> Get(analysis.overall_stats, "total_changes", 0)]

quality_metrics(analyses) ==
    List([i \in 1..Len(analyses) |-> [k |-> analyses[i].k, v |-> Quality(analyses[i].v)]])

_generate_comparative_analysis(self_repo_analyses) ==
    IF Len(self_repo_analyses) < 2
    THEN [message |-> "Need at least 2 repositories for comparative analysis"]
    ELSE [repository_rankings |->
             [by_pr_count |->
                 SortedDesc(KeyedByCount(Items(pr_counts(self_repo_analyses)))),
              by_merge_rate |->
                 SortedDesc(KeyedByValue(Items(merge_rates(self_repo_analyses)))),
              by_avg_comments |->
                 SortedDesc(KeyedByValue(Items(avg_comments(self_repo_analyses))))],
          activity_comparison |-> monthly_activity(self_repo_analyses),
          quality_metrics |-> quality_metrics(self_repo_analyses),
          trend_comparison |-> <<>>]

\* merge rate + normalized engagement
QualityScore(analysis) ==
    RatAdd(MergeRateOf(analysis),
           RatScale(RatAdd(AvgCommentsOf(analysis), AvgReviewCommentsOf(analysis)), 10))

quality_scores(analyses) ==
    List([i \in 1..Len(analyses) |->
             [k |-> analyses[i].k, v |-> QualityScore(analyses[i].v)]])

EngagementScore(analysis) ==
    RatAdd(AvgCommentsOf(analysis), AvgReviewCommentsOf(analysis))

engagement_scores(analyses) ==
    List([i \in 1..Len(analyses) |->
             [k |-> analyses[i].k, v |-> EngagementScore(analyses[i].v)]])

AvgTimeToMergeOf(analysis) == Get(analysis.lifecycle_stats, "avg_time_to_merge", Inf)

IsFinite(entry) == RatLess(entry.v, Inf)

\* the repositories whose avg_time_to_merge is below float('inf')
processing_times(analyses) ==
    SelectSeq(List([i \in 1..Len(analyses) |->
                       [k |-> analyses[i].k, v |-> AvgTimeToMergeOf(analyses[i].v)]]),
              IsFinite)

FastestProcessingRepo(analyses) ==
    IF processing_times(analyses) # <<>>
    THEN FirstMin(KeyedByValue(Items(processing_times(analyses))))
    ELSE None

\* pd.Series(pr_counts).std(): the sample standard deviation, NaN for one value
Std(counts) ==
    LET n == Len(counts)
        sum == SumSeq(counts)
        squares == SumSeq(List([i \in 1..n |-> counts[i] * counts[i]]))
    IN  IF n < 2 THEN NaN ELSE Sqrt(Rat(n * squares - sum * sum, n * (n - 1)))

\* std / mean, for mean > 0
StdOverMean(counts) ==
    LET n == Len(counts)
        sum == SumSeq(counts)
        squares == SumSeq(List([i \in 1..n |-> counts[i] * counts[i]]))
    IN  IF n < 2 THEN NaN
        ELSE Sqrt(Rat((n * squares - sum * sum) * n, (n - 1) * sum * sum))

Consistency(analysis) ==
    LET counts == Counts(analysis.monthly_stats)
    IN  [std_dev |-> Std(counts),
         coefficient_of_variation |->
             IF SumSeq(counts) > 0 THEN StdOverMean(counts) ELSE Zero,
         min_monthly_prs |-> MinOf({counts[i] : i \in 1..Len(counts)}),
         max_monthly_prs |-> MaxOf({counts[i] : i \in 1..Len(counts)})]

HasMonths(entry) == entry.v.monthly_stats # <<>>

consistency_analysis(analyses) ==
    LET active == SelectSeq(analyses, HasMonths)
    IN  List([i \in 1..Len(active) |-> [k |-> active[i].k, v |-> Consistency(active[i].v)]])

_generate_cross_repo_insights(self_repo_analyses) ==
    IF Len(self_repo_analyses) < 2
    THEN [message |-> "Need at least 2 repositories for cross-repo insights"]
    ELSE [most_active_repo |->
             FirstMax(KeyedByCount(Items(pr_counts(self_repo_analyses)))),
          highest_quality_repo |->
             FirstMax(KeyedByValue(Items(quality_scores(self_repo_analyses)))),
          fastest_processing_repo |-> FastestProcessingRepo(self_repo_analyses),
          most_engaged_community |->
             FirstMax(KeyedByValue(Items(engagement_scores(self_repo_analyses)))),
          consistency_analysis |-> consistency_analysis(self_repo_analyses),
          collaboration_patterns |-> <<>>]

RECURSIVE AnalyzeEach(_, _, _)

\* line 29, call being what self.analyzer.analyze_pr_data(prs) returned or raised
StoreAnalysis(repo_data, self_repo_analyses, call) ==
    IF call.ret.raised
    THEN [raised |-> TRUE, exc |-> call.ret, repo_analyses |-> self_repo_analyses,
          monthly_data |-> call.monthly_data]
    ELSE AnalyzeEach(Tail(repo_data),
                     Store(self_repo_analyses, Head(repo_data).k, call.ret.value),
                     call.monthly_data)

\* the loop of lines 27-29 over the remaining entries of repo_data: the state it
\* leaves, and the exception that ended it, if any
AnalyzeEach(repo_data, self_repo_analyses, self_monthly_data) ==
    IF repo_data = <<>>
    THEN [raised |-> FALSE, repo_analyses |-> self_repo_analyses,
          monthly_data |-> self_monthly_data]
    ELSE StoreAnalysis(repo_data, self_repo_analyses,
                       analyze_pr_data(self_monthly_data, Head(repo_data).v))

MonthsAnalyzed(self_repo_analyses) ==
    MaxOf({0} \cup {self_repo_analyses[i].v.summary.months_analyzed :
                       i \in 1..Len(self_repo_analyses)})

\* what analyze_multiple_repos returns once every repository has been analysed
ComparativeResult(repo_data, self_repo_analyses) ==
    [individual_analyses |-> self_repo_analyses,
     comparative_analysis |-> _generate_comparative_analysis(self_repo_analyses),
     cross_repo_insights |-> _generate_cross_repo_insights(self_repo_analyses),
     summary |->
        [total_repositories |-> Len(repo_data),
         total_prs_across_repos |->
            SumSeq(List([i \in 1..Len(self_repo_analyses) |->
                            TotalPrsOf(self_repo_analyses[i].v)])),
         months_analyzed |-> MonthsAnalyzed(self_repo_analyses),
         analysis_period |-> "2025"]]

\* lines 31-57, after the loop
AfterLoop(repo_data, looped) ==
    [ret |-> IF looped.raised THEN looped.exc
             ELSE Ok(ComparativeResult(repo_data, looped.repo_analyses)),
     repo_analyses |-> looped.repo_analyses,
     monthly_data |-> looped.monthly_data]

\* MultiRepoAnalyzer.analyze_multiple_repos on an instance in the given state: what
\* the call returns or raises (ret) and the instance's state afterwards
analyze_multiple_repos(self_repo_analyses, self_monthly_data, repo_data) ==
    AfterLoop(repo_data, AnalyzeEach(repo_data, self_repo_analyses, self_monthly_data))

-----------------------------------------------------------------------------
(* Inputs: pull-request records as the GitHub API delivers them *)

Dec == <<2024, 12, 20, 9>>

Jan == <<2025, 1, 10, 9>>

Feb == <<2025, 2, 10, 9>>

\* five hours after date_str, on the same day
Later(date_str) == [date_str EXCEPT ![4] = @ + 5]

\* a complete record: open, closed without a merge, or merged
PullRequest(number, created_at, outcome, login) ==
    [number |-> number,
     state |-> IF outcome = "open" THEN "open" ELSE "closed",
     created_at |-> created_at,
     closed_at |-> IF outcome = "open" THEN None ELSE Later(created_at),
     merged_at |-> IF outcome = "merged" THEN Later(created_at) ELSE None,
     comments |-> IF outcome = "merged" THEN 2 ELSE IF outcome = "closed" THEN 1 ELSE 0,
     review_comments |-> 1,
     commits |-> 1,
     additions |-> 10,
     deletions |-> 4,
     user |-> [login |-> login]]

Dates == <<Dec, Jan, Feb>>

Outcomes == <<"open", "closed", "merged">>

WellFormedRecords ==
    {PullRequest(3 * (i - 1) + j, Dates[i], Outcomes[j], "alice") : i \in 1..3, j \in 1..3}
    \cup {PullRequest(10, Jan, "merged", "bob")}

\* merged in the hour it was created
MergedAtOnce == [PullRequest(11, Feb, "merged", "bob") EXCEPT !.closed_at = Feb,
                                                               !.merged_at = Feb]

\* merged, with the state field still "open"
MergedButOpen == [PullRequest(12, Jan, "merged", "alice") EXCEPT !.state = "open"]

\* only the required fields
BareRecord == [number |-> 13, created_at |-> Feb]

\* a user object that carries no login
NoLogin == [number |-> 14, created_at |-> Jan, state |-> "closed", user |-> [id |-> 14]]

NoCreatedAt == [number |-> 15, state |-> "open", user |-> [login |-> "bob"]]

\* created_at "2025-02-30T09:00:00Z"
BadCreatedAt == [PullRequest(16, <<2025, 2, 30, 9>>, "open", "alice") EXCEPT !.comments = 3]

Records ==
    WellFormedRecords
    \cup {MergedAtOnce, MergedButOpen, BareRecord, NoLogin, NoCreatedAt, BadCreatedAt}

MaxPRs == 3

\* the record lists of at most MaxPRs records
RecordLists == UNION {[1..n -> Records] : n \in 0..MaxPRs}

RepoNames == {"X", "Y"}

\* the record lists handed to the comparator, newest record first as the fetch
\* client delivers them
RepoLists ==
    {<<>>,
     <<PullRequest(9, Feb, "merged", "alice"), PullRequest(5, Jan, "closed", "alice")>>,
     <<PullRequest(4, Jan, "open", "alice")>>,
     <<PullRequest(6, Jan, "merged", "alice"), BadCreatedAt>>}

\* a third repository, only ever analysed on its own
Archive ==
    <<[k |-> "Z", v |-> <<PullRequest(9, Feb, "merged", "alice"),
                          PullRequest(5, Jan, "closed", "alice")>>]>>

\* repo_data of at most two repositories, in either order
RepoData ==
    {<<>>, Archive}
    \cup {<<[k |-> a, v |-> l]>> : a \in RepoNames, l \in RepoLists}
    \cup {<<[k |-> p[1], v |-> l], [k |-> p[2], v |-> m]>> :
             p \in {q \in RepoNames \X RepoNames : q[1] # q[2]},
             l \in RepoLists, m \in RepoLists}

-----------------------------------------------------------------------------
(* The comparator instance held by the agent: any sequence of calls *)

Init ==
    /\ repo_analyses = <<>>
    /\ monthly_data = <<>>
    /\ arg = <<>>
    /\ result = None
    /\ pc = "idle"
    /\ held = None
    /\ all_prs = <<>>
    /\ page = 1
    /\ requests = <<>>

AnalyzeMultipleRepos(repo_data) ==
    \E call \in {analyze_multiple_repos(repo_analyses, monthly_data, repo_data)} :
        /\ repo_analyses' = call.repo_analyses
        /\ monthly_data' = call.monthly_data
        /\ arg' = repo_data
        /\ result' = call.ret
        /\ pc' = "analyze_multiple_repos"
        /\ UNCHANGED <<held, all_prs, page, requests>>

Next == \E repo_data \in RepoData : AnalyzeMultipleRepos(repo_data)

Spec == Init /\ [][Next]_vars

-----------------------------------------------------------------------------
(* The comparator instance called twice, the caller keeping the first result *)

\* the result dict as its holder reads it: "individual_analyses" is the
\* instance's repo_analyses dict itself (line 44), not a copy of it
ReadThrough(returned, self_repo_analyses) ==
    [returned EXCEPT !.individual_analyses = self_repo_analyses]

\* a second call, made while the caller still holds the result of the first
AnalyzeAgain(repo_data) ==
    /\ pc = "analyze_multiple_repos"
    /\ held = None
    /\ ~result.raised
    /\ \E call \in {analyze_multiple_repos(repo_analyses, monthly_data, repo_data)} :
        /\ repo_analyses' = call.repo_analyses
        /\ monthly_data' = call.monthly_data
        /\ arg' = repo_data
        /\ result' = call.ret
        /\ held' = [returned |-> result.value,
                    now |-> ReadThrough(result.value, call.repo_analyses)]
    /\ pc' = "analyze_multiple_repos"
    /\ UNCHANGED <<all_prs, page, requests>>

NextHeld ==
    \/ \E repo_data \in RepoData : pc = "idle" /\ AnalyzeMultipleRepos(repo_data)
    \/ \E repo_data \in RepoData : AnalyzeAgain(repo_data)

SpecHeld == Init /\ [][NextHeld]_vars

-----------------------------------------------------------------------------
(* A fresh PRAnalyzer called once with any record list *)

InitPR ==
    /\ repo_analyses = <<>>
    /\ monthly_data = <<>>
    /\ arg \in RecordLists
    /\ result = None
    /\ pc = "idle"
    /\ held = None
    /\ all_prs = <<>>
    /\ page = 1
    /\ requests = <<>>

AnalyzePrData ==
    /\ pc = "idle"
    /\ \E call \in {analyze_pr_data(monthly_data, arg)} :
           /\ monthly_data' = call.monthly_data
           /\ result' = call.ret
    /\ pc' = "analyze_pr_data"
    /\ UNCHANGED <<repo_analyses, arg, held, all_prs, page, requests>>

NextPR == AnalyzePrData

SpecPR == InitPR /\ [][NextPR]_vars

-----------------------------------------------------------------------------
(* A fresh PRAnalyzer called once with the records of many authors *)

MaxAuthors == 12

\* the records of the authors named in order, one record each
RecordsBy(authors) ==
    List([i \in 1..Len(authors) |-> PullRequest(i, Jan, "open", ToString(authors[i]))])

\* n authors with one record each, and up to two more records of any of them
\* in front or behind
AuthorListsOf(n) ==
    UNION {{RecordsBy(more \o List([a \in 1..n |-> a])),
            RecordsBy(List([a \in 1..n |-> a]) \o more)} :
               more \in UNION {[1..k -> 1..n] : k \in 0..2}}

AuthorLists == UNION {AuthorListsOf(n) : n \in 0..MaxAuthors}

InitTop ==
    /\ repo_analyses = <<>>
    /\ monthly_data = <<>>
    /\ arg \in AuthorLists
    /\ result = None
    /\ pc = "idle"
    /\ held = None
    /\ all_prs = <<>>
    /\ page = 1
    /\ requests = <<>>

SpecTop == InitTop /\ [][NextPR]_vars

-----------------------------------------------------------------------------
(* A fresh PRAnalyzer called once with a record that lacks optional fields *)

OptionalFields ==
    {"comments", "review_comments", "commits", "additions", "deletions",
     "closed_at", "merged_at", "user"}

\* the record without the fields named
Without(pr, fields) == [f \in DOMAIN pr \ fields |-> pr[f]]

Complete == PullRequest(1, Jan, "merged", "alice")

\* a merged record lacking any subset of the optional fields, alone or after a
\* complete record; the user object may also be there without a login
SparseRecords ==
    {Without([Complete EXCEPT !.number = 2], fields) : fields \in SUBSET OptionalFields}
    \cup {[Without([Complete EXCEPT !.number = 2], fields) EXCEPT !.user = [id |-> 2]] :
             fields \in SUBSET (OptionalFields \ {"user"})}

SparseLists == {<<pr>> : pr \in SparseRecords} \cup {<<Complete, pr>> : pr \in SparseRecords}

InitSparse ==
    /\ repo_analyses = <<>>
    /\ monthly_data = <<>>
    /\ arg \in SparseLists
    /\ result = None
    /\ pc = "idle"
    /\ held = None
    /\ all_prs = <<>>
    /\ page = 1
    /\ requests = <<>>

SpecSparse == InitSparse /\ [][NextPR]_vars

-----------------------------------------------------------------------------
(* The ranking of (name, metric) pairs, and of the same pairs with every metric
   negated *)

RankedNames == {"X", "Y", "Z"}

MaxRanked == 3

MaxMetric == 2

\* lists of (name, metric) pairs as dict.items() yields them: no name twice
RankInputs ==
    {items \in UNION {[1..n -> RankedNames \X (0..MaxMetric)] : n \in 0..MaxRanked} :
        \A i, j \in 1..Len(items) : items[i][1] = items[j][1] => i = j}

Negated(items) == List([i \in 1..Len(items) |-> <<items[i][1], -items[i][2]>>])

\* sorted(items, key=lambda x: x[1], reverse=True)
Ranking(items) == SortedDesc(KeyedByCount(items))

InitRank ==
    /\ repo_analyses = <<>>
    /\ monthly_data = <<>>
    /\ arg \in RankInputs
    /\ result = None
    /\ pc = "idle"
    /\ held = None
    /\ all_prs = <<>>
    /\ page = 1
    /\ requests = <<>>

RankBothWays ==
    /\ pc = "idle"
    /\ result' = [ranking |-> Ranking(arg), negated |-> Ranking(Negated(arg))]
    /\ pc' = "ranked"
    /\ UNCHANGED <<repo_analyses, monthly_data, arg, held, all_prs, page, requests>>

NextRank == RankBothWays

SpecRank == InitRank /\ [][NextRank]_vars

-----------------------------------------------------------------------------
(* src/config/settings.py and src/src/mcp/github_client.py *)

\* datetime.strptime of the configured "2025-01-01" and "2025-12-31" with
\* "%Y-%m-%d": midnight of each day
get_analysis_date_range ==
    [start_date |-> [year |-> 2025, month |-> 1, day |-> 1, hour |-> 0],
     end_date |-> [year |-> 2025, month |-> 12, day |-> 31, hour |-> 0]]

\* start_date <= created_at, whatever end_date is
NotBeforeStart(created_at) ==
    HoursOf(get_analysis_date_range.start_date) <= HoursOf(created_at)

\* start_date <= created_at <= end_date
InWindow(created_at) ==
    /\ HoursOf(get_analysis_date_range.start_date) <= HoursOf(created_at)
    /\ HoursOf(created_at) <= HoursOf(get_analysis_date_range.end_date)

\* created_at < start_date
BeforeStart(created_at) ==
    HoursOf(created_at) < HoursOf(get_analysis_date_range.start_date)

\* the per_page parameter (100 by default), scaled down
per_page == 2

\* the server's answer to a request for one page: the page-th run of per_page
\* records of its list, empty beyond the end of the list
PageOf(server_prs, page_no) ==
    SubSeq(server_prs, (page_no - 1) * per_page + 1,
           IF page_no * per_page <= Len(server_prs)
           THEN page_no * per_page ELSE Len(server_prs))

\* the for loop over one response, from its index-th record on, with the
\* records kept so far: ends at the end of the response, at the first record
\* created before start_date (break), or where strptime raises
RECURSIVE FilterFrom(_, _, _)
FilterRecord(response, index, kept, created_at) ==
    IF created_at.raised THEN created_at
    ELSE IF InWindow(created_at.value)
         THEN FilterFrom(response, index + 1, Append(kept, response[index]))
    ELSE IF BeforeStart(created_at.value) THEN Ok(kept)
    ELSE FilterFrom(response, index + 1, kept)

FilterFrom(response, index, kept) ==
    IF index > Len(response) THEN Ok(kept)
    ELSE FilterRecord(response, index, kept,
                      parse_github_date(response[index].created_at))

-----------------------------------------------------------------------------
(* One get_pull_requests call against a server holding any list of records *)

\* created after end_date (midnight of 2025-12-31), inside the window at its
\* very start and later in it, and before start_date
Dec31 == <<2025, 12, 31, 9>>

NewYear == <<2025, 1, 1, 0>>

FeedDates == {Dec31, Feb, NewYear, Dec}

MaxFeed == 4

\* the server's records, numbered in the order it serves them
FeedOf(dates) ==
    [i \in 1..Len(dates) |-> [number |-> i, created_at |-> dates[i]]]

Feeds == {FeedOf(dates) : dates \in UNION {[1..n -> FeedDates] : n \in 0..MaxFeed}}

InitFetch ==
    /\ repo_analyses = <<>>
    /\ monthly_data = <<>>
    /\ arg \in Feeds
    /\ result = None
    /\ pc = "fetching"
    /\ held = None
    /\ all_prs = <<>>
    /\ page = 1
    /\ requests = <<>>

\* the function returns all_prs as it stands after this iteration
Return(prs) ==
    /\ all_prs' = prs
    /\ result' = Ok(prs)
    /\ pc' = "get_pull_requests"
    /\ page' = page

\* the outcome of the for loop over a non-empty response
AfterFilter(response, kept) ==
    IF kept.raised
    THEN /\ result' = kept
         /\ pc' = "get_pull_requests"
         /\ UNCHANGED <<all_prs, page>>
    ELSE IF Len(response) < per_page THEN Return(kept.value)
    ELSE /\ all_prs' = kept.value
         /\ page' = page + 1
         /\ UNCHANGED <<result, pc>>

\* one iteration of the while loop: request the page, filter it, then leave
\* the loop or go on to the next page
FetchPage ==
    /\ pc = "fetching"
    /\ requests' = Append(requests, page)
    /\ \E response \in {PageOf(arg, page)} :
        IF response = <<>> THEN Return(all_prs)
        ELSE AfterFilter(response, FilterFrom(response, 1, all_prs))
    /\ UNCHANGED <<repo_analyses, monthly_data, arg, held>>

NextFetch == FetchPage

\* the server answers every request, so the loop is not suspended forever
SpecFetch == InitFetch /\ [][NextFetch]_vars /\ WF_vars(NextFetch)

-----------------------------------------------------------------------------
(* Properties of one PRAnalyzer call (SpecPR) *)

\* the call has returned an analysis of a non-empty record list
Analysed == pc = "analyze_pr_data" /\ arg # <<>> /\ ~result.raised

\* the "YYYY-MM" prefix of a record's created_at string
CreatedMonth(pr) == <<pr.created_at[1], pr.created_at[2]>>

MonthsOf(prs) == {CreatedMonth(prs[i]) : i \in 1..Len(prs)}

CreatedIn(prs, month) == Cardinality({i \in 1..Len(prs) : CreatedMonth(prs[i]) = month})

\* months in calendar order
Earlier(m1, m2) == m1[1] < m2[1] \/ (m1[1] = m2[1] /\ m1[2] < m2[2])

FirstMonth(prs) == CHOOSE m \in MonthsOf(prs) : \A o \in MonthsOf(prs) \ {m} : Earlier(m, o)

LastMonth(prs) == CHOOSE m \in MonthsOf(prs) : \A o \in MonthsOf(prs) \ {m} : Earlier(o, m)

TrendComputed == Analysed /\ "pr_count_trend" \in DOMAIN result.value.trends

\* C5: for every non-empty record list, the monthly counts add up to
\* overall_stats.total_prs and summary.total_prs, and each month's count is the
\* number of records created in that month: every record is in exactly one bucket.
C5_MonthlyCountsSumToTotal ==
    Analysed =>
        LET r == result.value
        IN  /\ SumSeq(Counts(r.monthly_stats)) = r.overall_stats.total_prs
            /\ r.overall_stats.total_prs = r.summary.total_prs
            /\ r.summary.total_prs = Len(arg)
            /\ \A i \in 1..Len(r.monthly_stats) :
                  r.monthly_stats[i].v.count = CreatedIn(arg, r.monthly_stats[i].k)
            /\ \A i, j \in 1..Len(r.monthly_stats) :
                  r.monthly_stats[i].k = r.monthly_stats[j].k => i = j

C5_Witness ==
    /\ Analysed
    /\ Len(arg) = 3
    /\ Len(result.value.monthly_stats) = 2

\* the records of a list that carry no author login
Authorless(prs) ==
    {i \in 1..Len(prs) : "user" \notin DOMAIN prs[i] \/ "login" \notin DOMAIN prs[i].user}

\* C6: for every non-empty record list, the pr_count of all contributors add up
\* to total_prs, and the records without an author are counted under "unknown".
C6_ContributorCountsSumToTotal ==
    Analysed =>
        LET r == result.value
            details == r.contributor_stats.contributor_details
        IN  /\ SumSeq(List([i \in 1..Len(details) |-> details[i].v.pr_count]))
                  = r.overall_stats.total_prs
            /\ Authorless(arg) # {} =>
                  /\ HasKey(details, "unknown")
                  /\ Lookup(details, "unknown").pr_count = Cardinality(Authorless(arg))

C6_Witness ==
    /\ Analysed
    /\ Cardinality(Authorless(arg)) = 2
    /\ Len(result.value.contributor_stats.contributor_details) = 2

\* the records of a list with merged_at set
MergedRecords(prs) ==
    {i \in 1..Len(prs) : "merged_at" \in DOMAIN prs[i] /\ prs[i].merged_at # None}

\* C7: for every non-empty record list, merge_rate = merged_count / total_prs * 100
\* with merged_count the number of records with merged_at set, and it is in [0, 100].
C7_MergeRate ==
    Analysed =>
        LET o == result.value.overall_stats
        IN  /\ o.merged_count = Cardinality(MergedRecords(arg))
            /\ o.merge_rate.d > 0
            /\ o.merge_rate.n * o.total_prs = o.merged_count * 100 * o.merge_rate.d
            /\ o.merge_rate.n >= 0
            /\ o.merge_rate.n <= 100 * o.merge_rate.d

C7_Witness ==
    /\ Analysed
    /\ Len(arg) = 3
    /\ Cardinality(MergedRecords(arg)) = 1
    /\ \E i \in 1..Len(arg) : IsClosed(arg[i]) /\ i \notin MergedRecords(arg)

\* C8: over at least 2 creation months, slope = (count of the last month in
\* calendar order - count of the first month in calendar order) / number of
\* months, whatever the order of the records.
C8_SlopeChronological ==
    (Analysed /\ Cardinality(MonthsOf(arg)) >= 2) =>
        /\ TrendComputed
        /\ LET slope == result.value.trends.pr_count_trend.slope
           IN  /\ slope.d > 0
               /\ slope.n * Cardinality(MonthsOf(arg))
                     = (CreatedIn(arg, LastMonth(arg)) - CreatedIn(arg, FirstMonth(arg)))
                       * slope.d

\* records given newest first, and the first and last months differ in count
C8_Witness ==
    /\ TrendComputed
    /\ Earlier(CreatedMonth(arg[Len(arg)]), CreatedMonth(arg[1]))
    /\ result.value.trends.pr_count_trend.slope.n # 0

\* C9: whenever a trend is computed, direction is "increasing" iff slope > 0,
\* "decreasing" iff slope < 0 and "stable" iff slope = 0, which is when the first
\* and the last month hold the same number of records.
C9_DirectionIsSignOfSlope ==
    TrendComputed =>
        LET t == result.value.trends.pr_count_trend
        IN  /\ t.direction = "increasing" <=> t.slope.n > 0
            /\ t.direction = "decreasing" <=> t.slope.n < 0
            /\ t.direction = "stable" <=> t.slope.n = 0
            /\ t.direction = "stable" <=>
                  CreatedIn(arg, FirstMonth(arg)) = CreatedIn(arg, LastMonth(arg))

C9_Witness ==
    /\ TrendComputed
    /\ result.value.trends.pr_count_trend.direction = "stable"
    /\ Len(arg) = 3

\* the months of a list that hold the most records
BusiestMonths(prs) ==
    {m \in MonthsOf(prs) : \A o \in MonthsOf(prs) : CreatedIn(prs, o) <= CreatedIn(prs, m)}

\* C10: whenever a trend is computed, peak_month is a month with the maximum
\* count, peak_count is that maximum, and among several such months the earliest
\* in calendar order is reported, whatever the order of the records.
C10_PeakIsEarliestBusiestMonth ==
    TrendComputed =>
        LET peak == result.value.trends.peak_activity
        IN  /\ peak.peak_month \in BusiestMonths(arg)
            /\ peak.peak_count = CreatedIn(arg, peak.peak_month)
            /\ \A m \in BusiestMonths(arg) \ {peak.peak_month} : Earlier(peak.peak_month, m)

\* two months tie for the maximum and the records come newest first
C10_Witness ==
    /\ TrendComputed
    /\ Cardinality(BusiestMonths(arg)) = 2
    /\ Earlier(CreatedMonth(arg[Len(arg)]), CreatedMonth(arg[1]))

\* the call was made with an empty record list
EmptyCall == pc = "analyze_pr_data" /\ arg = <<>>

\* the dict carries each of the fields, with the value zero
ZeroedCounts(d, fields) == \A f \in fields : f \in DOMAIN d /\ d[f] = 0

ZeroedFloats(d, fields) == \A f \in fields : f \in DOMAIN d /\ d[f] = Zero

\* C17: analyze_pr_data on an empty record list raises nothing and returns
\* total_prs = 0, months_analyzed = 0, empty monthly_stats, the trends message
\* "No data available", no contributors, and overall_stats and lifecycle_stats
\* that carry their fields with the value 0.
C17_EmptyInputZeroedResult ==
    EmptyCall =>
        /\ ~result.raised
        /\ result.value.summary.total_prs = 0
        /\ result.value.summary.months_analyzed = 0
        /\ result.value.monthly_stats = <<>>
        /\ result.value.trends = [message |-> "No data available"]
        /\ result.value.contributor_stats.total_contributors = 0
        /\ result.value.contributor_stats.top_contributors = <<>>
        /\ ZeroedCounts(result.value.overall_stats,
                        {"total_prs", "merged_count", "closed_not_merged_count",
                         "total_changes"})
        /\ ZeroedFloats(result.value.overall_stats,
                        {"merge_rate", "avg_comments", "avg_review_comments",
                         "avg_commits", "avg_additions", "avg_deletions"})
        /\ ZeroedCounts(result.value.lifecycle_stats,
                        {"total_prs", "closed_prs", "merged_prs"})
        /\ ZeroedFloats(result.value.lifecycle_stats,
                        {"avg_time_to_close", "avg_time_to_merge"})

\* the records of a list with closed_at set
ClosedRecords(prs) ==
    {i \in 1..Len(prs) : "closed_at" \in DOMAIN prs[i] /\ prs[i].closed_at # None}

\* the hours from a record's created_at to its timestamp f
HoursTo(pr, f) ==
    HoursOf(parse_github_date(pr[f]).value) - HoursOf(parse_github_date(pr.created_at).value)

\* avg is the arithmetic mean of the hours to f over the records in S, 0 for none
IsMeanOfHours(avg, prs, S, f) ==
    IF S = {} THEN avg = Zero
    ELSE /\ avg.d > 0
         /\ avg.n * Cardinality(S)
               = avg.d * SumSeq(List([i \in 1..Len(prs) |->
                                         IF i \in S THEN HoursTo(prs[i], f) ELSE 0]))

\* C18: avg_time_to_close (avg_time_to_merge) is the arithmetic mean of the
\* hours from created_at to closed_at (merged_at) over every record that has
\* closed_at (merged_at) set, those of 0 hours included, and 0 when there is none.
C18_LifecycleAveragesOverAllTimedRecords ==
    Analysed =>
        /\ IsMeanOfHours(result.value.lifecycle_stats.avg_time_to_close,
                         arg, ClosedRecords(arg), "closed_at")
        /\ IsMeanOfHours(result.value.lifecycle_stats.avg_time_to_merge,
                         arg, MergedRecords(arg), "merged_at")

\* created_at is missing or is not a date
Malformed(pr) == "created_at" \notin DOMAIN pr \/ ~MatchesFormat(pr.created_at)

MalformedRecords(prs) == {i \in 1..Len(prs) : Malformed(prs[i])}

\* the error tells record i from the other records of the input. The errors of
\* the model carry a key name (KeyError) or a date string (ValueError), never a
\* record number or position: a date string identifies the record when no other
\* record holds it.
IdentifiesRecord(error, prs, i) ==
    /\ error.exc = "ValueError"
    /\ "created_at" \in DOMAIN prs[i]
    /\ error.arg = prs[i].created_at
    /\ \A j \in 1..Len(prs) \ {i} :
          "created_at" \in DOMAIN prs[j] => prs[j].created_at # error.arg

\* C19: when a record of the input has a missing or unparsable created_at,
\* analyze_pr_data raises, it returns no result, and the error identifies an
\* offending record.
C19_MalformedCreatedAtFailsNamingRecord ==
    (pc = "analyze_pr_data" /\ MalformedRecords(arg) # {}) =>
        /\ result.raised
        /\ \E i \in MalformedRecords(arg) : IdentifiesRecord(result, arg, i)

\* the records of a list created in a month
InMonth(prs, month) == {i \in 1..Len(prs) : CreatedMonth(prs[i]) = month}

\* the records of a list whose state is the one given
InState(prs, state) == {i \in 1..Len(prs) : "state" \in DOMAIN prs[i] /\ prs[i].state = state}

\* C22: in every month bucket, open_count and closed_count are the numbers of
\* the bucket's records in state "open" and "closed", so open_count +
\* closed_count = count when every record of the bucket is in one of the two
\* states; and merged_count <= count.
C22_MonthlyStateCounts ==
    Analysed =>
        \A b \in 1..Len(result.value.monthly_stats) :
            LET month == result.value.monthly_stats[b].k
                stats == result.value.monthly_stats[b].v
            IN  /\ stats.open_count = Cardinality(InMonth(arg, month) \cap InState(arg, "open"))
                /\ stats.closed_count
                      = Cardinality(InMonth(arg, month) \cap InState(arg, "closed"))
                /\ InMonth(arg, month) \subseteq InState(arg, "open") \cup InState(arg, "closed")
                      => stats.open_count + stats.closed_count = stats.count
                /\ stats.merged_count <= stats.count
                /\ stats.merged_count
                      = Cardinality(InMonth(arg, month) \cap MergedRecords(arg))

\* a bucket of three records, open, closed and merged with the state "open"
C22_Witness ==
    /\ Analysed
    /\ Len(arg) = 3
    /\ \E b \in 1..Len(result.value.monthly_stats) :
          /\ result.value.monthly_stats[b].v.count = 3
          /\ result.value.monthly_stats[b].v.open_count = 2
          /\ result.value.monthly_stats[b].v.closed_count = 1
          /\ result.value.monthly_stats[b].v.merged_count = 1
    /\ \E i \in 1..Len(arg) : arg[i] = MergedButOpen

\* the entry carries the timing named, and it is the hours from created_at to
\* the record's timestamp f, which are not negative when f is not before created_at
IsTiming(entry, timing, pr, f) ==
    /\ timing \in DOMAIN entry
    /\ entry[timing] = FromInt(HoursTo(pr, f))
    /\ HoursTo(pr, f) >= 0 => entry[timing].n >= 0

\* C23: lifecycle_details holds one entry per input record, in input order; an
\* entry has time_to_close exactly when the record has closed_at and
\* time_to_merge exactly when it has merged_at, is_merged is true exactly when
\* merged_at is set, and a timing is not negative when its timestamp is not
\* before created_at.
C23_LifecycleDetails ==
    Analysed =>
        LET details == result.value.lifecycle_stats.lifecycle_details
        IN  /\ Len(details) = Len(arg)
            /\ result.value.lifecycle_stats.total_prs = Len(arg)
            /\ \A i \in 1..Len(arg) :
                  /\ details[i].pr_number = arg[i].number
                  /\ IF i \in ClosedRecords(arg)
                     THEN IsTiming(details[i], "time_to_close", arg[i], "closed_at")
                     ELSE "time_to_close" \notin DOMAIN details[i]
                  /\ IF i \in MergedRecords(arg)
                     THEN IsTiming(details[i], "time_to_merge", arg[i], "merged_at")
                     ELSE "time_to_merge" \notin DOMAIN details[i]
                  /\ details[i].is_merged <=> i \in MergedRecords(arg)

\* an open record, a record closed without a merge and a record merged in the
\* hour it was created, not in the order of their numbers
C23_Witness ==
    /\ Analysed
    /\ Len(arg) = 3
    /\ arg[1] = MergedAtOnce
    /\ 3 \in ClosedRecords(arg) \ MergedRecords(arg)
    /\ 2 \notin ClosedRecords(arg)
    /\ arg[2].number < arg[3].number

-----------------------------------------------------------------------------
(* Properties of a call with sparse records (SpecSparse) *)

\* the value of a numeric field of a record, a missing field counting as 0
Counted(pr, f) == IF f \in DOMAIN pr THEN pr[f] ELSE 0

Total(prs, f) == SumSeq(List([i \in 1..Len(prs) |-> Counted(prs[i], f)]))

\* avg is total / n
IsAverage(avg, total, n) == avg.d > 0 /\ avg.n * n = total * avg.d

\* C20: for records that have created_at and number and lack any subset of
\* comments, review_comments, commits, additions, deletions, closed_at,
\* merged_at and the author, analyze_pr_data raises nothing, counts every
\* missing numeric field as 0, and credits a record without an author to the
\* contributor "unknown".
C20_MissingOptionalFieldsDefault ==
    pc = "analyze_pr_data" =>
        /\ ~result.raised
        /\ LET o == result.value.overall_stats
               details == result.value.contributor_stats.contributor_details
           IN  /\ IsAverage(o.avg_comments, Total(arg, "comments"), Len(arg))
               /\ IsAverage(o.avg_review_comments, Total(arg, "review_comments"), Len(arg))
               /\ IsAverage(o.avg_commits, Total(arg, "commits"), Len(arg))
               /\ IsAverage(o.avg_additions, Total(arg, "additions"), Len(arg))
               /\ IsAverage(o.avg_deletions, Total(arg, "deletions"), Len(arg))
               /\ o.total_changes = Total(arg, "additions") + Total(arg, "deletions")
               /\ o.merged_count = Cardinality(MergedRecords(arg))
               /\ result.value.lifecycle_stats.total_prs = Len(arg)
               /\ Authorless(arg) # {} =>
                     /\ HasKey(details, "unknown")
                     /\ Lookup(details, "unknown").pr_count = Cardinality(Authorless(arg))
                     /\ Lookup(details, "unknown").total_comments
                           = SumSeq(List([i \in 1..Len(arg) |->
                                 IF i \in Authorless(arg) THEN Counted(arg[i], "comments")
                                 ELSE 0]))
               /\ Authorless(arg) = {} => ~HasKey(details, "unknown")

\* a complete record followed by one that lacks comments and merged_at and has a
\* user object without a login
C20_Witness ==
    /\ pc = "analyze_pr_data"
    /\ Len(arg) = 2
    /\ DOMAIN arg[2] \cap OptionalFields = OptionalFields \ {"comments", "merged_at"}
    /\ Authorless(arg) = {2}
    /\ ~result.raised

-----------------------------------------------------------------------------
(* Properties of the contributor ranking (SpecTop) *)

Authors(prs) == {Username(prs[i]) : i \in 1..Len(prs)}

RecordsOf(prs, author) == {i \in 1..Len(prs) : Username(prs[i]) = author}

FirstRecordOf(prs, author) == MinOf(RecordsOf(prs, author))

\* author a is ranked before author b: more records, or as many and an earlier
\* first record
RankedBefore(prs, a, b) ==
    \/ Cardinality(RecordsOf(prs, a)) > Cardinality(RecordsOf(prs, b))
    \/ /\ Cardinality(RecordsOf(prs, a)) = Cardinality(RecordsOf(prs, b))
       /\ FirstRecordOf(prs, a) < FirstRecordOf(prs, b)

\* C14: top_contributors is the first min(10, number of authors) entries of the
\* author list in non-increasing pr_count, authors with equal pr_count in the
\* order of their first record in the input.
C14_TopContributors ==
    Analysed =>
        LET top == result.value.contributor_stats.top_contributors
            named == {top[a][1] : a \in 1..Len(top)}
        IN  /\ Len(top) = IF Cardinality(Authors(arg)) < 10
                          THEN Cardinality(Authors(arg)) ELSE 10
            /\ named \subseteq Authors(arg)
            /\ \A a \in 1..Len(top) :
                  top[a][2].pr_count = Cardinality(RecordsOf(arg, top[a][1]))
            /\ \A a, b \in 1..Len(top) :
                  a < b => RankedBefore(arg, top[a][1], top[b][1])
            /\ \A a \in 1..Len(top) :
                  \A left \in Authors(arg) \ named : RankedBefore(arg, top[a][1], left)

\* more than 10 authors, of whom two have as many records as each other and
\* more than the rest, and the first record is not by the top contributor
C14_Witness ==
    /\ Analysed
    /\ Cardinality(Authors(arg)) > 10
    /\ LET top == result.value.contributor_stats.top_contributors
       IN  /\ Len(top) = 10
           /\ top[1][2].pr_count = 2
           /\ top[2][2].pr_count = 2
           /\ top[1][1] # Username(arg[1])

-----------------------------------------------------------------------------
(* Further properties of one PRAnalyzer call (SpecPR) *)

\* C24: when all records of a non-empty list are created in one month, trends
\* is the insufficient-data message alone, with no slope, direction or peak,
\* summary.months_analyzed is 1, and monthly_stats, overall_stats,
\* contributor_stats and lifecycle_stats are computed over all the records.
C24_SingleMonthHasNoTrend ==
    (Analysed /\ Cardinality(MonthsOf(arg)) = 1) =>
        /\ result.value.trends = [message |-> "Insufficient data for trend analysis"]
        /\ result.value.summary.months_analyzed = 1
        /\ Len(result.value.monthly_stats) = 1
        /\ result.value.monthly_stats[1].k = CreatedMonth(arg[1])
        /\ result.value.monthly_stats[1].v.count = Len(arg)
        /\ result.value.overall_stats.total_prs = Len(arg)
        /\ result.value.overall_stats.merged_count = Cardinality(MergedRecords(arg))
        /\ result.value.contributor_stats.total_contributors = Cardinality(Authors(arg))
        /\ result.value.lifecycle_stats.total_prs = Len(arg)
        /\ Len(result.value.lifecycle_stats.lifecycle_details) = Len(arg)

\* three records of two authors, all created in one month
C24_Witness ==
    /\ Analysed
    /\ Len(arg) = 3
    /\ Cardinality(MonthsOf(arg)) = 1
    /\ Cardinality(Authors(arg)) = 2
    /\ MergedRecords(arg) # {}

\* C25: a record with merged_at set counts towards merged_count overall, in
\* its month and for its contributor, whatever its state, and never towards
\* closed_not_merged_count; so merged_count + closed_not_merged_count <= total_prs.
C25_MergedWhateverTheState ==
    Analysed =>
        LET o == result.value.overall_stats
            months == result.value.monthly_stats
            details == result.value.contributor_stats.contributor_details
        IN  /\ o.merged_count = Cardinality(MergedRecords(arg))
            /\ o.closed_not_merged_count
                  = Cardinality(InState(arg, "closed") \ MergedRecords(arg))
            /\ o.merged_count + o.closed_not_merged_count <= o.total_prs
            /\ \A b \in 1..Len(months) :
                  months[b].v.merged_count
                      = Cardinality(InMonth(arg, months[b].k) \cap MergedRecords(arg))
            /\ \A c \in 1..Len(details) :
                  details[c].v.merged_count
                      = Cardinality(RecordsOf(arg, details[c].k) \cap MergedRecords(arg))

\* a merged record in state "open", a merged record in state "closed" and a
\* record closed without a merge
C25_Witness ==
    /\ Analysed
    /\ Len(arg) = 3
    /\ MergedRecords(arg) \cap InState(arg, "open") # {}
    /\ MergedRecords(arg) \cap InState(arg, "closed") # {}
    /\ InState(arg, "closed") \ MergedRecords(arg) # {}

\* C29: for every non-empty record list, lifecycle_stats.merged_prs equals
\* overall_stats.merged_count and lifecycle_stats.closed_prs equals the number
\* of records with closed_at set.
C29_LifecycleCountsAgreeWithOverall ==
    Analysed =>
        /\ result.value.lifecycle_stats.merged_prs
              = result.value.overall_stats.merged_count
        /\ result.value.lifecycle_stats.closed_prs = Cardinality(ClosedRecords(arg))

-----------------------------------------------------------------------------
(* Properties of the comparator instance (Spec) *)

Called == pc = "analyze_multiple_repos"

Returned == Called /\ ~result.raised

\* what a new MultiRepoAnalyzer returns or raises for repo_data
FreshCall(repo_data) == analyze_multiple_repos(<<>>, <<>>, repo_data).ret

\* what a new PRAnalyzer returns or raises for prs
FreshAnalysis(prs) == analyze_pr_data(<<>>, prs).ret

\* the analysis of one repository's record list fails
Fails(prs) == FreshAnalysis(prs).raised

ComparativePlaceholder ==
    [message |-> "Need at least 2 repositories for comparative analysis"]

InsightsPlaceholder ==
    [message |-> "Need at least 2 repositories for cross-repo insights"]

\* C1: the result of analyze_multiple_repos depends only on the repo_data of that
\* call: after any earlier calls on the instance, a call with input D returns
\* what a new instance called once with D returns.
C1_ResultDependsOnlyOnInput ==
    Called => result = FreshCall(arg)

\* C2: a call with fewer than 2 repositories returns the two placeholders and
\* raises nothing, also after earlier calls on the same instance (the record
\* lists being well-formed).
C2_PlaceholdersBelowTwoRepositories ==
    (Called /\ Len(arg) < 2 /\ \A i \in 1..Len(arg) : ~Fails(arg[i].v)) =>
        /\ ~result.raised
        /\ result.value.comparative_analysis = ComparativePlaceholder
        /\ result.value.cross_repo_insights = InsightsPlaceholder

\* C3: when the analysis of one repository of repo_data fails, the error that is
\* reported carries that repository's name, and every other repository of
\* repo_data is analysed all the same: its analysis is the one a call for it
\* alone produces.
C3_FailureIsolatedPerRepository ==
    Called =>
        \A i, j \in 1..Len(arg) :
            (Fails(arg[i].v) /\ ~Fails(arg[j].v)) =>
                /\ result.raised => result.arg = arg[i].k
                /\ HasKey(repo_analyses, arg[j].k)
                /\ Lookup(repo_analyses, arg[j].k) = FreshAnalysis(arg[j].v).value

\* the repositories of a comparison that hold a merged record
WithMerge(analyses) ==
    {i \in 1..Len(analyses) : MergedRecords(analyses[i].v.raw_data.all_prs) # {}}

\* C4: with at least 2 repositories, fastest_processing_repo is the repository
\* of minimum avg_time_to_merge among those with a merged record; a repository
\* without a merged record is never selected.
C4_FastestAmongMergedOnly ==
    (Returned /\ Len(arg) >= 2) =>
        LET analyses == result.value.individual_analyses
            fastest == result.value.cross_repo_insights.fastest_processing_repo
        IN  IF WithMerge(analyses) = {} THEN fastest = None
            ELSE \E i \in WithMerge(analyses) :
                    /\ fastest = <<analyses[i].k,
                                   analyses[i].v.lifecycle_stats.avg_time_to_merge>>
                    /\ \A j \in WithMerge(analyses) :
                          ~RatLess(analyses[j].v.lifecycle_stats.avg_time_to_merge,
                                   fastest[2])

\* C11: in a comparison of at least 2 repositories, activity_comparison[repo]
\* .peak_month of every repository with records is a month holding that
\* repository's maximum monthly count, and among several such months the
\* earliest in calendar order, whatever the order of the repository's records.
C11_ComparisonPeakIsEarliestBusiestMonth ==
    (Returned /\ Len(arg) >= 2) =>
        \A i \in 1..Len(arg) :
            arg[i].v # <<>> =>
                LET activity ==
                        Lookup(result.value.comparative_analysis.activity_comparison,
                               arg[i].k)
                IN  /\ activity.peak_month \in BusiestMonths(arg[i].v)
                    /\ \A m \in BusiestMonths(arg[i].v) \ {activity.peak_month} :
                          Earlier(activity.peak_month, m)

\* the position of a repository in the input map's iteration order
PositionIn(repo_data, name) == CHOOSE i \in 1..Len(repo_data) : repo_data[i].k = name

InInput(repo_data, name) == \E i \in 1..Len(repo_data) : repo_data[i].k = name

\* repositories of the input with equal metric values are ranked in input order
TiesKeepInputOrder(ranking, repo_data) ==
    \A a, b \in 1..Len(ranking) :
        (/\ a < b
         /\ ranking[a][2] = ranking[b][2]
         /\ InInput(repo_data, ranking[a][1])
         /\ InInput(repo_data, ranking[b][1]))
            => PositionIn(repo_data, ranking[a][1]) < PositionIn(repo_data, ranking[b][1])

\* C12: by_pr_count, by_merge_rate and by_avg_comments are each in non-increasing
\* order of their metric, and two repositories with equal metric values appear
\* in the relative order in which the input repository map iterates them.
C12_RankingsDescendingAndStable ==
    (Returned /\ Len(arg) >= 2) =>
        LET rankings == result.value.comparative_analysis.repository_rankings
        IN  /\ \A a \in 1..Len(rankings.by_pr_count) - 1 :
                  rankings.by_pr_count[a][2] >= rankings.by_pr_count[a + 1][2]
            /\ \A a \in 1..Len(rankings.by_merge_rate) - 1 :
                  ~RatLess(rankings.by_merge_rate[a][2], rankings.by_merge_rate[a + 1][2])
            /\ \A a \in 1..Len(rankings.by_avg_comments) - 1 :
                  ~RatLess(rankings.by_avg_comments[a][2],
                           rankings.by_avg_comments[a + 1][2])
            /\ TiesKeepInputOrder(rankings.by_pr_count, arg)
            /\ TiesKeepInputOrder(rankings.by_merge_rate, arg)
            /\ TiesKeepInputOrder(rankings.by_avg_comments, arg)

\* merge_rate + 10 * (avg_comments + avg_review_comments) of a record list
WeightedScore(prs) ==
    IF prs = <<>> THEN Zero
    ELSE Rat(100 * Cardinality(MergedRecords(prs))
                + 10 * (SumField(prs, "comments") + SumField(prs, "review_comments")),
             Len(prs))

\* C15: with at least 2 repositories in the input, highest_quality_repo is a
\* repository of the input that maximises merge_rate + 10 * (avg_comments +
\* avg_review_comments), reported together with that score.
C15_HighestQualityByWeightedScore ==
    (Returned /\ Len(arg) >= 2) =>
        \E i \in 1..Len(arg) :
            /\ result.value.cross_repo_insights.highest_quality_repo
                  = <<arg[i].k, WeightedScore(arg[i].v)>>
            /\ \A j \in 1..Len(arg) :
                  ~RatLess(WeightedScore(arg[i].v), WeightedScore(arg[j].v))

\* C16: with at least 2 repositories in the input, most_active_repo is a
\* repository of the input with the maximum number of records, and it is the
\* first entry of repository_rankings.by_pr_count.
C16_MostActiveIsTopOfPrCountRanking ==
    (Returned /\ Len(arg) >= 2) =>
        LET most_active == result.value.cross_repo_insights.most_active_repo
        IN  /\ \E i \in 1..Len(arg) :
                  /\ most_active = <<arg[i].k, Len(arg[i].v)>>
                  /\ \A j \in 1..Len(arg) : Len(arg[j].v) <= Len(arg[i].v)
            /\ most_active
                  = result.value.comparative_analysis.repository_rankings.by_pr_count[1]

\* the number of records of a list per creation month
MonthlyCounts(prs) == {CreatedIn(prs, m) : m \in MonthsOf(prs)}

\* cov is the float std / (total / months), both being square roots of rationals
IsStdOverMean(cov, std, total, months) ==
    /\ "sqrt_of" \in DOMAIN std
    /\ "sqrt_of" \in DOMAIN cov
    /\ cov.sqrt_of.n * total * total * std.sqrt_of.d
          = std.sqrt_of.n * cov.sqrt_of.d * months * months

\* C26: with at least 2 repositories in the input, consistency_analysis has an
\* entry for every repository with records (and none for one without); in it
\* min_monthly_prs and max_monthly_prs are the least and the greatest monthly
\* count, max_monthly_prs being activity_comparison's peak_count, and
\* coefficient_of_variation is the number std_dev / mean, also for a single month.
C26_ConsistencyAnalysis ==
    (Returned /\ Len(arg) >= 2) =>
        LET consistency == result.value.cross_repo_insights.consistency_analysis
            activity == result.value.comparative_analysis.activity_comparison
        IN  \A i \in 1..Len(arg) :
                IF arg[i].v = <<>> THEN ~HasKey(consistency, arg[i].k)
                ELSE /\ HasKey(consistency, arg[i].k)
                     /\ Lookup(consistency, arg[i].k).min_monthly_prs
                           = MinOf(MonthlyCounts(arg[i].v))
                     /\ Lookup(consistency, arg[i].k).max_monthly_prs
                           = MaxOf(MonthlyCounts(arg[i].v))
                     /\ Lookup(consistency, arg[i].k).max_monthly_prs
                           = Lookup(activity, arg[i].k).peak_count
                     /\ Lookup(consistency, arg[i].k).std_dev # NaN
                     /\ Lookup(consistency, arg[i].k).coefficient_of_variation # NaN
                     /\ IsStdOverMean(Lookup(consistency, arg[i].k).coefficient_of_variation,
                                      Lookup(consistency, arg[i].k).std_dev,
                                      Len(arg[i].v), Cardinality(MonthsOf(arg[i].v)))

\* the repositories a result reports as analysed
AnalysedRepos == {result.value.individual_analyses[i].k :
                     i \in 1..Len(result.value.individual_analyses)}

\* the number of records analysed for a repository: the length of its list in
\* the input, or for a repository of an earlier call the total its analysis holds
RecordCount(name) ==
    IF InInput(arg, name) THEN Len(arg[PositionIn(arg, name)].v)
    ELSE LET a == result.value.individual_analyses
         IN  a[CHOOSE i \in 1..Len(a) : a[i].k = name].v.summary.total_prs

\* the ranking lists each repository of S once and no other
ListsEachOnce(ranking, S) ==
    /\ Len(ranking) = Cardinality(S)
    /\ {ranking[i][1] : i \in 1..Len(ranking)} = S

\* C30: in a comparison of at least 2 repositories, by_pr_count and
\* by_avg_comments each contain every analysed repository exactly once, and
\* by_merge_rate exactly the repositories with at least one record; a
\* repository without records still has merge_rate 0 in quality_metrics.
C30_RankingMembership ==
    (Returned /\ Len(result.value.individual_analyses) >= 2) =>
        LET comparative == result.value.comparative_analysis
        IN  /\ ListsEachOnce(comparative.repository_rankings.by_pr_count, AnalysedRepos)
            /\ ListsEachOnce(comparative.repository_rankings.by_avg_comments,
                             AnalysedRepos)
            /\ ListsEachOnce(comparative.repository_rankings.by_merge_rate,
                             {name \in AnalysedRepos : RecordCount(name) >= 1})
            /\ \A name \in AnalysedRepos :
                  RecordCount(name) = 0 =>
                      \E q \in 1..Len(comparative.quality_metrics) :
                          /\ comparative.quality_metrics[q].k = name
                          /\ comparative.quality_metrics[q].v.merge_rate = Zero

\* two repositories given in one call, one with records and one without
C30_Witness ==
    /\ Returned
    /\ Len(arg) = 2
    /\ \E name \in AnalysedRepos : InInput(arg, name) /\ RecordCount(name) = 0
    /\ \E name \in AnalysedRepos : InInput(arg, name) /\ RecordCount(name) >= 2
    /\ Len(result.value.comparative_analysis.repository_rankings.by_merge_rate)
          < Len(result.value.comparative_analysis.repository_rankings.by_pr_count)

-----------------------------------------------------------------------------
(* Properties of the ranking (SpecRank) *)

Ranked == pc = "ranked"

Names(ranking) == List([i \in 1..Len(ranking) |-> ranking[i][1]])

Reverse(s) == List([i \in 1..Len(s) |-> s[Len(s) + 1 - i]])

DistinctMetrics(items) == \A i, j \in 1..Len(items) : items[i][2] = items[j][2] => i = j

\* the position of a name in the list of pairs given
GivenAt(items, name) == CHOOSE i \in 1..Len(items) : items[i][1] = name

\* pairs with equal metric values are ranked in the order given
TiesKeepGivenOrder(ranking, items) ==
    \A a, b \in 1..Len(ranking) :
        (a < b /\ ranking[a][2] = ranking[b][2])
            => GivenAt(items, ranking[a][1]) < GivenAt(items, ranking[b][1])

\* C13, as stated: negating every metric value and ranking again yields the
\* original ranking in exactly reversed order.
C13_NegationReversesRanking ==
    Ranked => Names(result.negated) = Reverse(Names(result.ranking))

\* C13, amended: when the metric values are pairwise distinct, negating every
\* metric value and ranking again yields the original ranking in exactly
\* reversed order; pairs with equal metric values keep the order given in both
\* rankings, so they are not reversed.
C13_NegationReversesDistinctMetrics ==
    Ranked =>
        /\ DistinctMetrics(arg) => Names(result.negated) = Reverse(Names(result.ranking))
        /\ \A a \in 1..Len(result.ranking) - 1 :
              result.ranking[a][2] >= result.ranking[a + 1][2]
        /\ {result.ranking[a] : a \in 1..Len(result.ranking)}
              = {arg[i] : i \in 1..Len(arg)}
        /\ Len(result.ranking) = Len(arg) /\ Len(result.negated) = Len(arg)
        /\ TiesKeepGivenOrder(result.ranking, arg)
        /\ TiesKeepGivenOrder(result.negated, arg)

\* three pairs with distinct metric values, given neither in ascending nor in
\* descending order
C13_Witness ==
    /\ Ranked
    /\ Len(arg) = 3
    /\ DistinctMetrics(arg)
    /\ result.ranking # arg
    /\ result.negated # Negated(arg)

-----------------------------------------------------------------------------
(* Properties of results kept across calls (SpecHeld) *)

\* C21: a result already returned to the caller is not changed by a later call
\* on the same instance: it reads as it did when it was returned, its
\* individual_analyses map included.
C21_ReturnedResultNeverChanges ==
    held # None => held.now = held.returned

-----------------------------------------------------------------------------
(* Properties of one get_pull_requests call (SpecFetch) *)

\* the function has returned a list
Fetched == pc = "get_pull_requests" /\ ~result.raised

\* created_at of a record the server holds
CreatedAt(pr) == parse_github_date(pr.created_at).value

\* the response holds a record created before the start of the window
HasEarlierRecord(response) ==
    \E i \in 1..Len(response) : BeforeStart(CreatedAt(response[i]))

\* the server serves its records newest first
NewestFirst(server_prs) ==
    \A i, j \in 1..Len(server_prs) :
        i < j => HoursOf(CreatedAt(server_prs[i])) >= HoursOf(CreatedAt(server_prs[j]))

\* start_date <= created_at <= end_date, for a record the server holds
InWindowRecord(pr) ==
    /\ HoursOf(CreatedAt(pr)) >= HoursOf(get_analysis_date_range.start_date)
    /\ HoursOf(CreatedAt(pr)) <= HoursOf(get_analysis_date_range.end_date)

\* the server's records created inside the window, in the order served
WindowOf(server_prs) == SelectSeq(server_prs, InWindowRecord)

\* C27: once a fetched page contains a record created before the start of
\* the analysis window, no further page is requested: every page requested
\* that holds such a record is the last page requested.
C27_FetchingStopsAtEarlierRecord ==
    \A k \in 1..Len(requests) :
        HasEarlierRecord(PageOf(arg, requests[k])) => k = Len(requests)

\* C28: when the server serves its records newest first (and, its list being
\* finite, eventually answers with a short or an empty page), the call
\* returns, and what it returns is exactly the records created inside the
\* window, each once and in the order served.
C28_ReturnsExactlyTheWindow ==
    /\ NewestFirst(arg) => <>(pc = "get_pull_requests")
    /\ [](NewestFirst(arg) /\ pc = "get_pull_requests"
            => ~result.raised /\ result.value = WindowOf(arg))

\* a newest-first list with records after, inside and before the window,
\* fetched over several pages
C28_Witness ==
    /\ Fetched
    /\ NewestFirst(arg)
    /\ Len(requests) >= 2
    /\ \E i \in 1..Len(arg) : BeforeStart(CreatedAt(arg[i]))
    /\ \E i \in 1..Len(arg) :
        NotBeforeStart(CreatedAt(arg[i])) /\ ~InWindowRecord(arg[i])
    /\ Len(result.value) >= 2

====
